---- MODULE Spec2Model ----
(***************************************************************************)
(* Model of the cci-api REST service (src/app.py): three tables            *)
(* (experiment, product, file) behind fifteen request handlers.  Every     *)
(* handler is one action: it reads the request, runs the handler's code    *)
(* against the tables, commits (or lets the request teardown discard the   *)
(* session when the handler raised) and leaves the response.               *)
(***************************************************************************)
EXTENDS Integers, Sequences, FiniteSets, TLC

VARIABLES experiments, products, files, seq, request, response, issued, created

vars == <<experiments, products, files, seq, request, response, issued, created>>

tables == <<experiments, products, files>>

----------------------------------------------------------------------------
(* Bounds *)

\* number of rows inserted over a whole run, all tables together
MaxCreates == 2

\* largest id a request path /<int:id> or a foreign key in a body carries
MaxId == 2

Ids == 1..MaxId

----------------------------------------------------------------------------
(* JSON bodies.  A body is a mapping from keys to values; a key's value is *)
(* <<>> when the key is absent and <<v>> when it is present with value v.   *)

Opt(S) == {<<>>} \cup {<<v>> : v \in S}

EmptyJson ==
  [name |-> <<>>, desc |-> <<>>, experiment_id |-> <<>>, path |-> <<>>,
   dateTime |-> <<>>, level |-> <<>>, product_id |-> <<>>, id |-> <<>>,
   start_date |-> <<>>, end_date |-> <<>>, product_ids |-> <<>>,
   experiment_ids |-> <<>>]

\* 'k' in request.json
Has(json, k) == json[k] # <<>>

\* request.json.get(k, default)
JsonGet(json, k, default) == IF Has(json, k) THEN json[k][1] ELSE default

\* `not request.json`: no JSON body, or a body with no keys
NotJson(req) == ~req.hasJson \/ req.json = EmptyJson

\* a handler runs only while no request is being served
Idle == request.op = "none"

----------------------------------------------------------------------------
(* Timestamps.  A datetime is <<year, month, day, hour, minute, second>>.  *)

date_format == "%Y-%m-%d %H:%M:%S"

datetime_min == <<1, 1, 1, 0, 0, 0>>
datetime_max == <<9999, 12, 31, 23, 59, 59>>

\* the texts the requests of the model carry, with what strptime makes of
\* them under date_format; a text outside the table raises ValueError
StrptimeTable ==
  [t \in {"2021-06-01 00:00:00", "2021-6-1 0:0:0", "1900-01-01 00:00:00",
          "0001-01-01 00:00:00", "9999-12-31 23:59:59"} |->
     CASE t = "2021-06-01 00:00:00" -> <<2021, 6, 1, 0, 0, 0>>
       [] t = "2021-6-1 0:0:0"      -> <<2021, 6, 1, 0, 0, 0>>
       [] t = "1900-01-01 00:00:00" -> <<1900, 1, 1, 0, 0, 0>>
       [] t = "0001-01-01 00:00:00" -> datetime_min
       [] t = "9999-12-31 23:59:59" -> datetime_max]

\* datetime.strptime(text, date_format): ok = FALSE stands for ValueError
strptime(text) ==
  IF text \in DOMAIN StrptimeTable
    THEN [ok |-> TRUE, value |-> StrptimeTable[text]]
    ELSE [ok |-> FALSE, value |-> datetime_min]

Pad(n, width) ==
  LET s == ToString(n)
  IN  IF width = 4
        THEN (IF n < 10 THEN "000" \o s
              ELSE IF n < 100 THEN "00" \o s
              ELSE IF n < 1000 THEN "0" \o s ELSE s)
        ELSE (IF n < 10 THEN "0" \o s ELSE s)

\* dt.strftime(date_format), and str(dt) for a datetime without microseconds
strftime(dt) ==
  Pad(dt[1], 4) \o "-" \o Pad(dt[2], 2) \o "-" \o Pad(dt[3], 2) \o " " \o
  Pad(dt[4], 2) \o ":" \o Pad(dt[5], 2) \o ":" \o Pad(dt[6], 2)

\* a <= b on datetimes
RECURSIVE LexLeq(_, _, _)
LexLeq(a, b, i) ==
  IF i > Len(a) THEN TRUE
  ELSE IF a[i] < b[i] THEN TRUE
  ELSE IF a[i] > b[i] THEN FALSE
  ELSE LexLeq(a, b, i + 1)

DateLeq(a, b) == LexLeq(a, b, 1)

----------------------------------------------------------------------------
(* Tables and rows *)

Put(f, k, v) == [x \in (DOMAIN f) \cup {k} |-> IF x = k THEN v ELSE f[x]]

Drop(f, k) == [x \in (DOMAIN f) \ {k} |-> f[x]]

EmptyTable == [x \in {} |-> x]

RECURSIVE SortedIds(_)
SortedIds(S) ==
  IF S = {} THEN <<>>
  ELSE LET m == CHOOSE x \in S : \A y \in S : x <= y
       IN  <<m>> \o SortedIds(S \ {m})

\* Experiment.serialize
Experiment_serialize(id, row) ==
  [id |-> id, name |-> row.name, desc |-> row.desc]

\* Product.serialize
Product_serialize(id, row) ==
  [id |-> id, name |-> row.name, desc |-> row.desc,
   experiment_id |-> row.experiment_id]

\* File.serialize returning the timestamp without zero padding
File_serialize_Unpadded(id, row) ==
  [id |-> id, path |-> row.path,
   dateTime |-> ToString(row.dateTime[1]) \o "-" \o ToString(row.dateTime[2])
                \o "-" \o ToString(row.dateTime[3]) \o " " \o
                ToString(row.dateTime[4]) \o ":" \o ToString(row.dateTime[5])
                \o ":" \o ToString(row.dateTime[6]),
   level |-> row.level, product_id |-> row.product_id]

\* File.serialize
File_serialize(id, row) ==
  [id |-> id, path |-> row.path, dateTime |-> strftime(row.dateTime),
   level |-> row.level, product_id |-> row.product_id]

----------------------------------------------------------------------------
(* Requests and responses *)

Request(op, id, hasJson, json) ==
  [op |-> op, id |-> id, hasJson |-> hasJson, json |-> json]

\* jsonify({key: item}) with a status
Response(status, key, items) == [status |-> status, key |-> key, items |-> items]

\* abort(400)
BadRequest == Response(400, "error", <<>>)

\* an exception the handler does not catch
InternalServerError == Response(500, "error", <<>>)

\* jsonify({'result': True})
ResultTrue == Response(200, "result", <<>>)

Created == (seq.experiment - 1) + (seq.product - 1) + (seq.file - 1)

\* the datastore's insert-returning-id: the next value of the table's
\* sequence
NextId(table) == seq[table]

Init ==
  /\ experiments = EmptyTable
  /\ products = EmptyTable
  /\ files = EmptyTable
  /\ seq = [experiment |-> 1, product |-> 1, file |-> 1]
  /\ request = Request("none", 0, FALSE, EmptyJson)
  /\ response = Response(0, "none", <<>>)
  /\ issued = [experiment |-> {}, product |-> {}, file |-> {}]
  /\ created = [experiment |-> EmptyTable, product |-> EmptyTable,
                file |-> EmptyTable]

----------------------------------------------------------------------------
(* Experiment routes *)

\* bodies of POST /experiments/: every choice of name and desc, and one
\* body that also carries an id
ExperimentCreateJson ==
  {[EmptyJson EXCEPT !.name = n, !.desc = d] :
     n \in Opt({"a"}), d \in Opt({"d"})}
  \cup {[EmptyJson EXCEPT !.name = <<"a">>, !.id = <<MaxId>>]}

\* bodies of PUT /experiments/<id>
ExperimentUpdateJson ==
  {[EmptyJson EXCEPT !.name = n, !.desc = d] :
     n \in Opt({"b"}), d \in Opt({"d"})}
  \cup {[EmptyJson EXCEPT !.desc = <<"d">>, !.id = <<MaxId>>]}

get_experiments ==
  /\ Idle
  /\ request' = Request("get_experiments", 0, FALSE, EmptyJson)
  /\ response' = Response(200, "experiments",
       [i \in 1..Cardinality(DOMAIN experiments) |->
          LET id == SortedIds(DOMAIN experiments)[i]
          IN  Experiment_serialize(id, experiments[id])])
  /\ UNCHANGED <<tables, seq, issued>>

get_experiment(id) ==
  /\ Idle
  /\ request' = Request("get_experiment", id, FALSE, EmptyJson)
  /\ response' = IF id \in DOMAIN experiments
                   THEN Response(200, "experiment",
                          <<Experiment_serialize(id, experiments[id])>>)
                   ELSE InternalServerError
  /\ UNCHANGED <<tables, seq, issued>>

\* update_experiment writing request.json.get('name') without the default
update_experiment_FullReplace(id, hasJson, json) ==
  /\ Idle
  /\ request' = Request("update_experiment", id, hasJson, json)
  /\ IF id \in DOMAIN experiments /\ hasJson
       THEN LET exp == [name |-> JsonGet(json, "name", ""),
                        desc |-> JsonGet(json, "desc", "")]
            IN  /\ experiments' = [experiments EXCEPT ![id] = exp]
                /\ response' = Response(200, "experiment",
                                 <<Experiment_serialize(id, exp)>>)
       ELSE /\ response' = InternalServerError
            /\ UNCHANGED experiments
  /\ UNCHANGED <<products, files, seq, issued>>

update_experiment(id, hasJson, json) ==
  /\ Idle
  /\ request' = Request("update_experiment", id, hasJson, json)
  /\ IF id \in DOMAIN experiments /\ hasJson
       THEN LET exp == [name |-> JsonGet(json, "name", experiments[id].name),
                        desc |-> JsonGet(json, "desc", experiments[id].desc)]
            IN  /\ experiments' = [experiments EXCEPT ![id] = exp]
                /\ response' = Response(200, "experiment",
                                 <<Experiment_serialize(id, exp)>>)
       ELSE /\ response' = InternalServerError
            /\ UNCHANGED experiments
  /\ UNCHANGED <<products, files, seq, issued>>

\* delete_experiment with a cascade to the experiment's products
delete_experiment_Cascade(id) ==
  /\ Idle
  /\ request' = Request("delete_experiment", id, FALSE, EmptyJson)
  /\ IF id \in DOMAIN experiments
       THEN /\ experiments' = Drop(experiments, id)
            /\ products' = [p \in {q \in DOMAIN products :
                                      products[q].experiment_id # id} |->
                              products[p]]
            /\ response' = ResultTrue
       ELSE /\ response' = InternalServerError
            /\ UNCHANGED <<experiments, products>>
  /\ UNCHANGED <<files, seq, issued>>

delete_experiment(id) ==
  /\ Idle
  /\ request' = Request("delete_experiment", id, FALSE, EmptyJson)
  /\ IF id \in DOMAIN experiments
       THEN /\ experiments' = Drop(experiments, id)
            /\ response' = ResultTrue
       ELSE /\ response' = InternalServerError
            /\ UNCHANGED experiments
  /\ UNCHANGED <<products, files, seq, issued>>

\* create_experiment taking the id from the request when it carries one
create_experiment_IdFromRequest(hasJson, json) ==
  /\ Idle
  /\ request' = Request("create_experiment", 0, hasJson, json)
  /\ IF NotJson(request') \/ ~Has(json, "name")
       THEN /\ response' = BadRequest
            /\ UNCHANGED <<experiments, seq, issued>>
       ELSE LET exp == [name |-> JsonGet(json, "name", ""),
                        desc |-> JsonGet(json, "desc", "")]
                id == JsonGet(json, "id", NextId("experiment"))
                out == Experiment_serialize(id, exp)
            IN  IF id \in DOMAIN experiments
                  THEN /\ response' = InternalServerError
                       /\ UNCHANGED <<experiments, seq, issued>>
                  ELSE /\ Created < MaxCreates \/ Has(json, "id")
                       /\ experiments' = Put(experiments, id, exp)
                       /\ seq' = IF Has(json, "id")
                                   THEN seq
                                   ELSE [seq EXCEPT !.experiment = id + 1]
                       /\ response' = Response(201, "experiment", <<out>>)
                       /\ issued' = [issued EXCEPT !.experiment = @ \cup {id}]
  /\ UNCHANGED <<products, files>>

create_experiment(hasJson, json) ==
  /\ Idle
  /\ request' = Request("create_experiment", 0, hasJson, json)
  /\ IF NotJson(request') \/ ~Has(json, "name")
       THEN /\ response' = BadRequest
            /\ UNCHANGED <<experiments, seq, issued>>
       ELSE LET exp == [name |-> JsonGet(json, "name", ""),
                        desc |-> JsonGet(json, "desc", "")]
                id == NextId("experiment")
                out == Experiment_serialize(id, exp)
            IN  /\ Created < MaxCreates
                /\ experiments' = Put(experiments, id, exp)
                /\ seq' = [seq EXCEPT !.experiment = id + 1]
                /\ response' = Response(201, "experiment", <<out>>)
                /\ issued' = [issued EXCEPT !.experiment = @ \cup {id}]
  /\ UNCHANGED <<products, files>>

----------------------------------------------------------------------------
(* Product routes *)

\* bodies of POST /products/
ProductCreateJson ==
  {[EmptyJson EXCEPT !.name = n, !.desc = d, !.experiment_id = e] :
     n \in Opt({"a"}), d \in Opt({"d"}), e \in Opt({1})}

\* bodies of PUT /products/<id>
ProductUpdateJson ==
  {[EmptyJson EXCEPT !.name = n, !.desc = d, !.experiment_id = e] :
     n \in Opt({"b"}), d \in Opt({"d"}), e \in Opt({2})}

get_products ==
  /\ Idle
  /\ request' = Request("get_products", 0, FALSE, EmptyJson)
  /\ response' = Response(200, "products",
       [i \in 1..Cardinality(DOMAIN products) |->
          LET id == SortedIds(DOMAIN products)[i]
          IN  Product_serialize(id, products[id])])
  /\ UNCHANGED <<tables, seq, issued>>

get_product(id) ==
  /\ Idle
  /\ request' = Request("get_product", id, FALSE, EmptyJson)
  /\ response' = IF id \in DOMAIN products
                   THEN Response(200, "product",
                          <<Product_serialize(id, products[id])>>)
                   ELSE InternalServerError
  /\ UNCHANGED <<tables, seq, issued>>

update_product(id, hasJson, json) ==
  /\ Idle
  /\ request' = Request("update_product", id, hasJson, json)
  /\ IF id \in DOMAIN products /\ hasJson
       THEN LET prd == [name |-> JsonGet(json, "name", products[id].name),
                        desc |-> JsonGet(json, "desc", products[id].desc),
                        experiment_id |->
                          JsonGet(json, "experiment_id",
                                  products[id].experiment_id)]
            IN  /\ products' = [products EXCEPT ![id] = prd]
                /\ response' = Response(200, "product",
                                 <<Product_serialize(id, prd)>>)
       ELSE /\ response' = InternalServerError
            /\ UNCHANGED products
  /\ UNCHANGED <<experiments, files, seq, issued>>

delete_product(id) ==
  /\ Idle
  /\ request' = Request("delete_product", id, FALSE, EmptyJson)
  /\ IF id \in DOMAIN products
       THEN /\ products' = Drop(products, id)
            /\ response' = ResultTrue
       ELSE /\ response' = InternalServerError
            /\ UNCHANGED products
  /\ UNCHANGED <<experiments, files, seq, issued>>

\* create_product that checks name only
create_product_NameOnly(hasJson, json) ==
  /\ Idle
  /\ request' = Request("create_product", 0, hasJson, json)
  /\ IF NotJson(request') \/ ~Has(json, "name")
       THEN /\ response' = BadRequest
            /\ UNCHANGED <<products, seq, issued>>
       ELSE LET prd == [name |-> JsonGet(json, "name", ""),
                        desc |-> JsonGet(json, "desc", ""),
                        experiment_id |-> JsonGet(json, "experiment_id", 0)]
                id == NextId("product")
                out == Product_serialize(id, prd)
            IN  /\ Created < MaxCreates
                /\ products' = Put(products, id, prd)
                /\ seq' = [seq EXCEPT !.product = id + 1]
                /\ response' = Response(201, "product", <<out>>)
                /\ issued' = [issued EXCEPT !.product = @ \cup {id}]
  /\ UNCHANGED <<experiments, files>>

create_product(hasJson, json) ==
  /\ Idle
  /\ request' = Request("create_product", 0, hasJson, json)
  /\ IF NotJson(request') \/ ~Has(json, "name")
        \/ ~Has(json, "experiment_id")
       THEN /\ response' = BadRequest
            /\ UNCHANGED <<products, seq, issued>>
       ELSE LET prd == [name |-> JsonGet(json, "name", ""),
                        desc |-> JsonGet(json, "desc", ""),
                        experiment_id |-> JsonGet(json, "experiment_id", 0)]
                id == NextId("product")
                out == Product_serialize(id, prd)
            IN  /\ Created < MaxCreates
                /\ products' = Put(products, id, prd)
                /\ seq' = [seq EXCEPT !.product = id + 1]
                /\ response' = Response(201, "product", <<out>>)
                /\ issued' = [issued EXCEPT !.product = @ \cup {id}]
  /\ UNCHANGED <<experiments, files>>

----------------------------------------------------------------------------
(* File routes *)

\* bodies of POST /files/: every choice of keys with a parseable dateTime,
\* and one complete body whose dateTime does not parse
FileCreateJson ==
  {[EmptyJson EXCEPT !.path = p, !.dateTime = t, !.level = l,
                     !.product_id = q] :
     p \in Opt({"p"}), t \in Opt({"2021-6-1 0:0:0"}),
     l \in Opt({"L2"}), q \in Opt({1})}
  \cup {[EmptyJson EXCEPT !.path = <<"p">>, !.product_id = <<1>>,
                          !.dateTime = <<"not-a-date">>]}

\* bodies of PUT /files/<id>
FileUpdateJson ==
  {[EmptyJson EXCEPT !.path = p, !.dateTime = t, !.level = l,
                     !.product_id = q] :
     p \in Opt({"q"}), t \in Opt({"2021-06-01 00:00:00"}),
     l \in Opt({"L2"}), q \in Opt({2})}
  \cup {[EmptyJson EXCEPT !.path = p, !.dateTime = <<"not-a-date">>] :
          p \in Opt({"q"})}

\* filter payloads of GET /files/
FilterJson ==
  {[EmptyJson EXCEPT !.start_date = s, !.end_date = e, !.product_ids = p,
                     !.experiment_ids = x] :
     s \in Opt({"2021-06-01 00:00:00"}), e \in Opt({"1900-01-01 00:00:00"}),
     p \in Opt({{1}, {1, 2}}), x \in Opt({{1}})}

\* the datastore's comparison of a DateTime column with a timestamp text:
\* the text is read as the timestamp it denotes
sql_datetime(text) == strptime(text).value

\* Product.query.filter(Product.id.in_(ids)).all()
ProductsIn(ids) == SortedIds({p \in DOMAIN products : p \in ids})

\* Experiment.query.filter(Experiment.id.in_(ids)).all()
ExperimentsIn(ids) == SortedIds({x \in DOMAIN experiments : x \in ids})

\* Product.files: the File rows whose product_id is the product's id
Product_files(p) == SortedIds({f \in DOMAIN files : files[f].product_id = p})

\* for p in products: for f in p.files: file_ids.append(f.id)
RECURSIVE CollectFileIds(_)
CollectFileIds(prds) ==
  IF prds = <<>> THEN <<>>
  ELSE Product_files(Head(prds)) \o CollectFileIds(Tail(prds))

SeqRange(s) == {s[i] : i \in DOMAIN s}

\* File.query.filter(File.id.in_(file_ids), File.dateTime >= s,
\*                   File.dateTime <= e).all()
FilesFiltered(file_ids, s, e) ==
  SortedIds({f \in DOMAIN files :
               /\ f \in SeqRange(file_ids)
               /\ DateLeq(sql_datetime(s), files[f].dateTime)
               /\ DateLeq(files[f].dateTime, sql_datetime(e))})

\* products = [] ; if 'product_ids' in args: products = Product.query...
SelectedProducts_AllByDefault(json) ==
  IF Has(json, "product_ids")
    THEN ProductsIn(json.product_ids[1])
    ELSE ProductsIn(DOMAIN products)

SelectedProducts(json) ==
  IF Has(json, "product_ids") THEN ProductsIn(json.product_ids[1]) ELSE <<>>

File_query_all_Joined ==
  SortedIds({f \in DOMAIN files : files[f].product_id \in DOMAIN products})

\* File.query.all()
File_query_all == SortedIds(DOMAIN files)

FileList(ids) == [i \in 1..Len(ids) |-> File_serialize(ids[i], files[ids[i]])]

get_files(hasJson, json) ==
  /\ Idle
  /\ request' = Request("get_files", 0, hasJson, json)
  /\ IF NotJson(request')
       THEN response' = Response(200, "files", FileList(File_query_all))
       ELSE LET s == JsonGet(json, "start_date", strftime(datetime_min))
                e == JsonGet(json, "end_date", strftime(datetime_max))
                products0 == SelectedProducts(json)
                expts == IF Has(json, "experiment_ids")
                           THEN ExperimentsIn(json.experiment_ids[1])
                           ELSE <<>>
            IN  IF expts # <<>>
                  \* products + expt.products: a list plus a dynamic
                  \* relationship (a query object) raises TypeError
                  THEN response' = InternalServerError
                  ELSE response' =
                         Response(200, "files",
                           FileList(FilesFiltered(CollectFileIds(products0),
                                                  s, e)))
  /\ UNCHANGED <<tables, seq, issued>>

get_file(id) ==
  /\ Idle
  /\ request' = Request("get_file", id, FALSE, EmptyJson)
  /\ response' = IF id \in DOMAIN files
                   THEN Response(200, "file",
                                 <<File_serialize(id, files[id])>>)
                   ELSE InternalServerError
  /\ UNCHANGED <<tables, seq, issued>>

update_file(id, hasJson, json) ==
  /\ Idle
  /\ request' = Request("update_file", id, hasJson, json)
  /\ IF id \in DOMAIN files /\ hasJson
       THEN LET parsed == strptime(JsonGet(json, "dateTime", ""))
                \* the session's object after the assignments
                f == [path |-> JsonGet(json, "path", files[id].path),
                      dateTime |-> IF Has(json, "dateTime")
                                     THEN parsed.value
                                     ELSE files[id].dateTime,
                      level |-> JsonGet(json, "level", files[id].level),
                      product_id |->
                        JsonGet(json, "product_id", files[id].product_id)]
            IN  IF Has(json, "dateTime") /\ ~parsed.ok
                  \* ValueError after f.path was assigned: no commit, the
                  \* session is discarded with the request
                  THEN /\ response' = InternalServerError
                       /\ UNCHANGED files
                  ELSE /\ files' = [files EXCEPT ![id] = f]
                       /\ response' = Response(200, "file",
                                               <<File_serialize(id, f)>>)
       ELSE /\ response' = InternalServerError
            /\ UNCHANGED files
  /\ UNCHANGED <<experiments, products, seq, issued>>

delete_file(id) ==
  /\ Idle
  /\ request' = Request("delete_file", id, FALSE, EmptyJson)
  /\ IF id \in DOMAIN files
       THEN /\ files' = Drop(files, id)
            /\ response' = ResultTrue
       ELSE /\ response' = InternalServerError
            /\ UNCHANGED files
  /\ UNCHANGED <<experiments, products, seq, issued>>

\* File.__init__(path, dateTime, level, product_id)
File_init(path, dateTime, level, product_id) ==
  LET parsed == strptime(dateTime)
  IN  [ok |-> parsed.ok,
       row |-> [path |-> path, dateTime |-> parsed.value, level |-> level,
                product_id |-> product_id]]

create_file(hasJson, json) ==
  /\ Idle
  /\ request' = Request("create_file", 0, hasJson, json)
  /\ IF NotJson(request') \/ ~Has(json, "path") \/ ~Has(json, "product_id")
       THEN /\ response' = BadRequest
            /\ UNCHANGED <<files, seq, issued>>
       ELSE LET f == File_init(JsonGet(json, "path", ""),
                               JsonGet(json, "dateTime",
                                       "1900-01-01 00:00:00"),
                               JsonGet(json, "level", ""),
                               JsonGet(json, "product_id", 0))
                id == NextId("file")
                out == File_serialize(id, f.row)
            IN  IF ~f.ok
                  THEN /\ response' = InternalServerError
                       /\ UNCHANGED <<files, seq, issued>>
                  ELSE /\ Created < MaxCreates
                       /\ files' = Put(files, id, f.row)
                       /\ seq' = [seq EXCEPT !.file = id + 1]
                       /\ response' = Response(201, "file", <<out>>)
                       /\ issued' = [issued EXCEPT !.file = @ \cup {id}]
  /\ UNCHANGED <<experiments, products>>

----------------------------------------------------------------------------
(* The request loop *)

\* the response is returned to the client and the next request is awaited
send_response ==
  /\ ~Idle
  /\ request' = Request("none", 0, FALSE, EmptyJson)
  /\ response' = Response(0, "none", <<>>)
  /\ UNCHANGED <<tables, seq, issued>>

\* a request either carries a JSON body or none
Body(hasJson, json) == hasJson \/ json = EmptyJson

Next ==
  \/ get_experiments /\ UNCHANGED created
  \/ Idle /\ \E id \in Ids : get_experiment(id) /\ UNCHANGED created
  \/ Idle /\ \E id \in Ids, hasJson \in BOOLEAN, json \in ExperimentUpdateJson :
       Body(hasJson, json) /\ update_experiment(id, hasJson, json) /\ UNCHANGED created
  \/ Idle /\ \E id \in Ids : delete_experiment(id) /\ UNCHANGED created
  \/ Idle /\ \E hasJson \in BOOLEAN, json \in ExperimentCreateJson :
       Body(hasJson, json) /\ create_experiment(hasJson, json) /\ UNCHANGED created
  \/ get_products /\ UNCHANGED created
  \/ Idle /\ \E id \in Ids : get_product(id) /\ UNCHANGED created
  \/ Idle /\ \E id \in Ids, hasJson \in BOOLEAN, json \in ProductUpdateJson :
       Body(hasJson, json) /\ update_product(id, hasJson, json) /\ UNCHANGED created
  \/ Idle /\ \E id \in Ids : delete_product(id) /\ UNCHANGED created
  \/ Idle /\ \E hasJson \in BOOLEAN, json \in ProductCreateJson :
       Body(hasJson, json) /\ create_product(hasJson, json) /\ UNCHANGED created
  \/ Idle /\ \E hasJson \in BOOLEAN, json \in FilterJson :
       Body(hasJson, json) /\ get_files(hasJson, json) /\ UNCHANGED created
  \/ Idle /\ \E id \in Ids : get_file(id) /\ UNCHANGED created
  \/ Idle /\ \E id \in Ids, hasJson \in BOOLEAN, json \in FileUpdateJson :
       Body(hasJson, json) /\ update_file(id, hasJson, json) /\ UNCHANGED created
  \/ Idle /\ \E id \in Ids : delete_file(id) /\ UNCHANGED created
  \/ Idle /\ \E hasJson \in BOOLEAN, json \in FileCreateJson :
       Body(hasJson, json) /\ create_file(hasJson, json) /\ UNCHANGED created
  \/ send_response /\ UNCHANGED created

Spec == Init /\ [][Next]_vars

----------------------------------------------------------------------------
(* Vocabulary of the properties *)

TableNames == {"experiment", "product", "file"}

\* the NotFound outcome (404); no handler of the source produces it
NotFound == Response(404, "error", <<>>)

Rows(t) ==
  CASE t = "experiment" -> experiments
    [] t = "product" -> products
    [] t = "file" -> files

GetOp(t) == "get_" \o t
UpdateOp(t) == "update_" \o t
DeleteOp(t) == "delete_" \o t
CreateOp(t) == "create_" \o t

\* the required fields of Create, per entity type
RequiredKeys(t) ==
  CASE t = "experiment" -> {"name"}
    [] t = "product" -> {"name", "experiment_id"}
    [] t = "file" -> {"path", "product_id"}

\* the attributes Update can overwrite, per entity type
UpdatableKeys(t) ==
  CASE t = "experiment" -> {"name", "desc"}
    [] t = "product" -> {"name", "desc", "experiment_id"}
    [] t = "file" -> {"path", "dateTime", "level", "product_id"}

\* the timestamp texts in the fixed format YYYY-MM-DD HH:MM:SS
ParseableTexts == DOMAIN StrptimeTable

\* the canonical text of the timestamp a parseable text denotes
CanonicalOfText(text) ==
  CASE text = "2021-6-1 0:0:0" -> "2021-06-01 00:00:00"
    [] OTHER -> text

\* the canonical text of a stored timestamp
CanonicalText(dt) ==
  CASE dt = <<1900, 1, 1, 0, 0, 0>> -> "1900-01-01 00:00:00"
    [] dt = <<2021, 6, 1, 0, 0, 0>> -> "2021-06-01 00:00:00"

\* the attribute value an Update stores for key k given the input value v
StoredValue(k, v) == IF k = "dateTime" THEN StrptimeTable[v] ELSE v

\* the serialized File row f of the store
ExpectedFile(f) ==
  [id |-> f, path |-> files[f].path,
   dateTime |-> CanonicalText(files[f].dateTime),
   level |-> files[f].level, product_id |-> files[f].product_id]

\* items lists exactly the Files of S, each once
ItemsAre(items, S) ==
  /\ Len(items) = Cardinality(S)
  /\ \A f \in S : \E i \in DOMAIN items : items[i] = ExpectedFile(f)

\* the serialized row a Create with body json and assigned id returns
ExpectedCreated(t, id, json) ==
  CASE t = "experiment" ->
         [id |-> id, name |-> json.name[1], desc |-> JsonGet(json, "desc", "")]
    [] t = "product" ->
         [id |-> id, name |-> json.name[1], desc |-> JsonGet(json, "desc", ""),
          experiment_id |-> json.experiment_id[1]]
    [] t = "file" ->
         [id |-> id, path |-> json.path[1],
          dateTime |-> CanonicalOfText(JsonGet(json, "dateTime",
                                               "1900-01-01 00:00:00")),
          level |-> JsonGet(json, "level", ""),
          product_id |-> json.product_id[1]]

\* the Files a filter payload selects: those of the candidate Products
\* (by product_ids, or by an existing Experiment of experiment_ids) whose
\* dateTime lies in [start_date, end_date]
FilterExpected(json) ==
  LET pids == JsonGet(json, "product_ids", {})
      eids == JsonGet(json, "experiment_ids", {})
      cand == {p \in DOMAIN products :
                 \/ p \in pids
                 \/ /\ products[p].experiment_id \in eids
                    /\ products[p].experiment_id \in DOMAIN experiments}
      lo == IF Has(json, "start_date")
              THEN StrptimeTable[json.start_date[1]] ELSE datetime_min
      hi == IF Has(json, "end_date")
              THEN StrptimeTable[json.end_date[1]] ELSE datetime_max
  IN  {f \in DOMAIN files :
         /\ files[f].product_id \in cand
         /\ DateLeq(lo, files[f].dateTime)
         /\ DateLeq(files[f].dateTime, hi)}

----------------------------------------------------------------------------
(* Round-trip history.  created[t][id] is the serialized row that the      *)
(* Create response returned for id; it is kept until an Update or a Delete *)
(* of id succeeds.  The variable records the behaviour and no handler      *)
(* reads it: Spec leaves it empty, SpecRoundTrip maintains it.            *)

RecordCreated ==
  created' =
    [t \in TableNames |->
       IF request'.op = CreateOp(t) /\ response'.status = 201
         THEN Put(created[t], response'.items[1].id, response'.items[1])
       ELSE IF /\ request'.op \in {UpdateOp(t), DeleteOp(t)}
               /\ response'.status = 200
         THEN Drop(created[t], request'.id)
       ELSE created[t]]

NextRoundTrip ==
  \/ get_experiments /\ RecordCreated
  \/ Idle /\ \E id \in Ids : get_experiment(id) /\ RecordCreated
  \/ Idle /\ \E id \in Ids, hasJson \in BOOLEAN, json \in ExperimentUpdateJson :
       Body(hasJson, json) /\ update_experiment(id, hasJson, json) /\ RecordCreated
  \/ Idle /\ \E id \in Ids : delete_experiment(id) /\ RecordCreated
  \/ Idle /\ \E hasJson \in BOOLEAN, json \in ExperimentCreateJson :
       Body(hasJson, json) /\ create_experiment(hasJson, json) /\ RecordCreated
  \/ get_products /\ RecordCreated
  \/ Idle /\ \E id \in Ids : get_product(id) /\ RecordCreated
  \/ Idle /\ \E id \in Ids, hasJson \in BOOLEAN, json \in ProductUpdateJson :
       Body(hasJson, json) /\ update_product(id, hasJson, json) /\ RecordCreated
  \/ Idle /\ \E id \in Ids : delete_product(id) /\ RecordCreated
  \/ Idle /\ \E hasJson \in BOOLEAN, json \in ProductCreateJson :
       Body(hasJson, json) /\ create_product(hasJson, json) /\ RecordCreated
  \/ Idle /\ \E hasJson \in BOOLEAN, json \in FilterJson :
       Body(hasJson, json) /\ get_files(hasJson, json) /\ RecordCreated
  \/ Idle /\ \E id \in Ids : get_file(id) /\ RecordCreated
  \/ Idle /\ \E id \in Ids, hasJson \in BOOLEAN, json \in FileUpdateJson :
       Body(hasJson, json) /\ update_file(id, hasJson, json) /\ RecordCreated
  \/ Idle /\ \E id \in Ids : delete_file(id) /\ RecordCreated
  \/ Idle /\ \E hasJson \in BOOLEAN, json \in FileCreateJson :
       Body(hasJson, json) /\ create_file(hasJson, json) /\ RecordCreated
  \/ send_response /\ RecordCreated

SpecRoundTrip == Init /\ [][NextRoundTrip]_vars

----------------------------------------------------------------------------
(* Properties *)

\* C1: for each entity type, Get, Update and Delete of an id that is not
\* in the store end in NotFound and leave the store unchanged.
C1_MissingIdIsNotFound ==
  [][\A t \in TableNames :
       (/\ request'.op \in {GetOp(t), UpdateOp(t), DeleteOp(t)}
        /\ request'.id \notin DOMAIN Rows(t))
       => (response' = NotFound /\ tables' = tables)]_vars

\* C2: a Create whose input lacks a required field, or that has no body,
\* yields BadRequest and adds no row to any table.
C2_MissingFieldIsBadRequest ==
  [][\A t \in TableNames :
       (/\ request'.op = CreateOp(t)
        /\ \/ ~request'.hasJson
           \/ \E k \in RequiredKeys(t) : ~Has(request'.json, k))
       => (response' = BadRequest /\ tables' = tables)]_vars

\* C2 happens: a Product Create with name but without experiment_id was
\* refused.
C2_Witness ==
  /\ request.op = "create_product"
  /\ request.hasJson
  /\ Has(request.json, "name")
  /\ ~Has(request.json, "experiment_id")
  /\ response = BadRequest

\* C3: a File Create or Update whose dateTime text does not parse yields
\* BadRequest and leaves the store unchanged.
C3_BadDateTimeIsBadRequest ==
  [][(/\ request'.hasJson
      /\ Has(request'.json, "dateTime")
      /\ request'.json.dateTime[1] \notin ParseableTexts
      /\ \/ request'.op = "create_file"
         \/ request'.op = "update_file" /\ request'.id \in DOMAIN files)
     => (response' = BadRequest /\ tables' = tables)]_vars

\* C4: an Update of an existing id overwrites exactly the updatable
\* attributes whose keys the input carries, keeps the others, keeps the id,
\* and changes no other row of any type.
C4_PartialUpdate ==
  [][\A t \in TableNames :
       LET id == request'.id
           json == request'.json
       IN  (/\ request'.op = UpdateOp(t)
            /\ request'.hasJson
            /\ id \in DOMAIN Rows(t)
            /\ Has(json, "dateTime") => json.dateTime[1] \in ParseableTexts)
           => /\ response'.status = 200
              /\ response'.items[1].id = id
              /\ DOMAIN Rows(t)' = DOMAIN Rows(t)
              /\ DOMAIN Rows(t)'[id] = UpdatableKeys(t)
              /\ \A k \in UpdatableKeys(t) :
                   Rows(t)'[id][k] = IF Has(json, k)
                                       THEN StoredValue(k, json[k][1])
                                       ELSE Rows(t)[id][k]
              /\ \A j \in DOMAIN Rows(t) \ {id} : Rows(t)'[j] = Rows(t)[j]
              /\ \A u \in TableNames \ {t} : Rows(u)' = Rows(u)]_vars

\* C4 happens: a File Update carrying path and dateTime only went through
\* on a File whose level and product_id had been supplied at creation.
C4_Witness ==
  /\ request.op = "update_file"
  /\ response.status = 200
  /\ Has(request.json, "path") /\ Has(request.json, "dateTime")
  /\ ~Has(request.json, "level") /\ ~Has(request.json, "product_id")
  /\ files[request.id].path = "q"
  /\ files[request.id].level = "L2"
  /\ files[request.id].product_id = 1
  /\ DOMAIN products # {}

\* C5: the id a successful Create returns is none of the ids returned by
\* the earlier successful Creates of the same type, deleted rows included.
C5_FreshIds ==
  [][\A t \in TableNames :
       (request'.op = CreateOp(t) /\ response'.status = 201)
       => /\ response'.items[1].id \notin issued[t]
          /\ response'.items[1].id \in DOMAIN Rows(t)']_vars

\* C5 happens: an Experiment was created after the row of an earlier
\* Create had been deleted.
C5_Witness ==
  /\ request.op = "create_experiment"
  /\ response.status = 201
  /\ issued.experiment = {1, response.items[1].id}
  /\ response.items[1].id # 1
  /\ 1 \notin DOMAIN experiments

\* C6: a File-list request with a filter payload returns exactly the Files,
\* each once, of the candidate Products (by product_ids or by the
\* Experiments of experiment_ids) whose dateTime is within the inclusive
\* range.
C6_FilterResult ==
  (request.op = "get_files" /\ request.hasJson /\ request.json # EmptyJson)
  => /\ response.status = 200
     /\ response.key = "files"
     /\ ItemsAre(response.items, FilterExpected(request.json))

\* C7 as claimed: every filter payload without product_ids and without
\* experiment_ids, the payload with no keys included, returns no File.
C7_NoSelectorIsEmpty_Original ==
  (/\ request.op = "get_files"
   /\ request.hasJson
   /\ ~Has(request.json, "product_ids")
   /\ ~Has(request.json, "experiment_ids"))
  => response = Response(200, "files", <<>>)

\* C7 as amended: a filter payload with at least one key, but without
\* product_ids and without experiment_ids, returns no File; the payload
\* with no keys returns every File.
C7_NoSelectorIsEmpty ==
  /\ (/\ request.op = "get_files"
      /\ request.hasJson
      /\ request.json # EmptyJson
      /\ ~Has(request.json, "product_ids")
      /\ ~Has(request.json, "experiment_ids"))
     => response = Response(200, "files", <<>>)
  /\ (/\ request.op = "get_files"
      /\ request.hasJson
      /\ request.json = EmptyJson)
     => /\ response.status = 200
        /\ response.key = "files"
        /\ ItemsAre(response.items, DOMAIN files)

\* C7 happens: a payload with start_date only returned nothing although a
\* File of an existing Product lies inside the range.
C7_Witness ==
  /\ request.op = "get_files"
  /\ request.hasJson
  /\ Has(request.json, "start_date")
  /\ ~Has(request.json, "end_date")
  /\ ~Has(request.json, "product_ids")
  /\ ~Has(request.json, "experiment_ids")
  /\ response = Response(200, "files", <<>>)
  /\ \E f \in DOMAIN files :
       /\ DateLeq(StrptimeTable[request.json.start_date[1]], files[f].dateTime)
       /\ files[f].product_id \in DOMAIN products

\* C8: a File-list request without payload returns every File row once,
\* whatever its dateTime and product_id, and does not modify the store.
C8_NoPayloadListsAll ==
  [][(request'.op = "get_files" /\ ~request'.hasJson)
     => /\ response'.status = 200
        /\ response'.key = "files"
        /\ ItemsAre(response'.items, DOMAIN files)
        /\ tables' = tables]_vars

\* C8 happens: two Files with different dateTime, one of them of a Product
\* that does not exist, were both listed.
C8_Witness ==
  /\ request.op = "get_files"
  /\ ~request.hasJson
  /\ Len(response.items) = 2
  /\ response.items[1].dateTime # response.items[2].dateTime
  /\ \E f \in DOMAIN files : files[f].product_id \notin DOMAIN products

====
